---- MODULE Spec2Model ----
(***************************************************************************)
(* Model of src/main.py: one run of main(), the coroutine that records a   *)
(* clip, submits it to the Detect API, polls the status endpoint, sends    *)
(* the redacted audio to the realtime speech service over a websocket and  *)
(* reassembles the streamed reply.                                         *)
(*                                                                         *)
(* A base64 text is the sequence of its code points, a URL a sequence of   *)
(* one-character strings, bytes are integers 0..255, a Python dict is a    *)
(* function on its keys, and an optional value is a sequence of length 0   *)
(* (None) or 1.                                                            *)
(***************************************************************************)
EXTENDS Integers, Sequences, FiniteSets, TLC

\* ------------------------------------------------------------------ bounds
MaxPending == 2   \* longest finite run of still-pending answers of the status endpoint
MaxMsgs    == 4   \* messages the speech service delivers for accumulation
MaxInbox   == 2   \* messages in flight on the websocket, not yet consumed
CallCap    == MaxPending + 2   \* the call counters saturate here
Forever    == 0 - 1            \* the endpoint never leaves the pending state

\* ------------------------------------------------------- program constants
HTTP_OK       == 200
POLL_INTERVAL == 2
FRAME_RATE    == 24000
CHANNELS      == 1
SAMPLE_WIDTH  == 2
RECORD_SECONDS == 10
RECORD_FS     == 44100

None == <<>>
Some(x) == <<x>>

\* ------------------------------------------------------------------ base64
\* a text is the sequence of the code points of its characters, a byte
\* string the sequence of its bytes
PAD == 61   \* "="

\* the base64 alphabet: A-Z, a-z, 0-9, "+" and "/"
IsB64(c) == c \in (65..90) \cup (97..122) \cup (48..57) \cup {43, 47}
B64Val(c) ==
  IF c \in 65..90 THEN c - 65
  ELSE IF c \in 97..122 THEN c - 71
  ELSE IF c \in 48..57 THEN c + 4
  ELSE IF c = 43 THEN 62
  ELSE 63

\* binascii.a2b_base64 in its default, non-strict mode, as base64.b64decode
\* calls it: characters outside the alphabet are skipped, a completed pad
\* sequence ends the parse, and a dangling quad is an error.
RECURSIVE a2b_base64(_, _, _, _, _, _)
a2b_base64(s, i, quad_pos, leftchar, pads, out) ==
  IF i > Len(s)
  THEN IF quad_pos # 0 THEN [ok |-> FALSE, bytes |-> <<>>]
                       ELSE [ok |-> TRUE, bytes |-> out]
  ELSE LET c == s[i] IN
    IF c = PAD
    THEN IF quad_pos >= 2 /\ quad_pos + pads + 1 >= 4
         THEN [ok |-> TRUE, bytes |-> out]
         ELSE a2b_base64(s, i + 1, quad_pos, leftchar,
                         IF quad_pos >= 2 THEN pads + 1 ELSE pads, out)
    ELSE IF ~IsB64(c)
    THEN a2b_base64(s, i + 1, quad_pos, leftchar, pads, out)
    ELSE LET v == B64Val(c) IN
      CASE quad_pos = 0 -> a2b_base64(s, i + 1, 1, v, 0, out)
        [] quad_pos = 1 -> a2b_base64(s, i + 1, 2, v % 16, 0,
                                      Append(out, leftchar * 4 + v \div 16))
        [] quad_pos = 2 -> a2b_base64(s, i + 1, 3, v % 4, 0,
                                      Append(out, leftchar * 16 + v \div 4))
        [] OTHER        -> a2b_base64(s, i + 1, 0, 0, 0,
                                      Append(out, leftchar * 64 + v))

\* str.encode('ascii') succeeds on the character
IsAscii(c) == c \in 0..127

\* base64.b64decode(text): the text is first encoded as ASCII, which raises
\* ValueError on any other character, then handed to binascii.a2b_base64
b64decode(s) ==
  IF \E i \in 1..Len(s) : ~IsAscii(s[i])
  THEN [ok |-> FALSE, bytes |-> <<>>, error |-> "ValueError"]
  ELSE LET r == a2b_base64(s, 1, 0, 0, 0, <<>>) IN
       [ok |-> r.ok, bytes |-> r.bytes, error |-> IF r.ok THEN "" ELSE "binascii.Error"]

\* ------------------------------------------------------------ REST clients
\* the status codes and bodies the two endpoints are given to answer with
StatusCodes == {200, 201, 202, 204, 404, 500}

\* requests.post(...) then lines 102-106: the parsed body, or None
detect_audio(response) ==
  IF response.status_code = HTTP_OK THEN Some(response.body) ELSE None

\* requests.get(...) then lines 114-118: the parsed body, or None
check_status(response) ==
  IF response.status_code = HTTP_OK THEN Some(response.body) ELSE None

\* Python truthiness of an optional dict: None and {} are false
Truthy(opt) == opt # None /\ DOMAIN opt[1] # {}

\* dict.get("status") == value, for a dict that may lack the key
StatusIs(d, value) == "status" \in DOMAIN d /\ d.status = value

\* str.split('/')[0]
LastSegment_first(s) ==
  IF \E i \in 1..Len(s) : s[i] = "/"
  THEN SubSeq(s, 1, (CHOOSE i \in 1..Len(s) : s[i] = "/" /\ \A j \in 1..(i - 1) : s[j] # "/") - 1)
  ELSE s

\* str.split('/')[-1]
RECURSIVE LastSegment(_)
LastSegment(s) ==
  IF s = <<>> THEN <<>>
  ELSE IF s[Len(s)] = "/" THEN <<>>
  ELSE Append(LastSegment(SubSeq(s, 1, Len(s) - 1)), s[Len(s)])


\* ------------------------------------------------- what the services answer
\* the status URL of a job descriptor: three '/'-separated segments
StatusUrls == { <<"d", "/", "s", "/", "j", "2">> }

\* bodies of the submit endpoint: a job descriptor, or one without status_url
SubmitBodies == { [status_url |-> u] : u \in StatusUrls } \cup { <<>>, [error |-> "bad"] }

Entry(type, file) == [processedFileType |-> type, processedFile |-> file]

FileAB   == <<81, 85, 73, 61>>         \* "QUI=": the bytes 65 66
FileABC  == <<81, 85, 74, 68>>         \* "QUJD": the bytes 65 66 67
FileText == <<101, 65, 61, 61>>        \* "eA==": the byte 120
FileBad  == <<81, 81, 61>>             \* "QQ=": a dangling quad
FileNonAscii == <<233, 81, 81, 61, 61>>   \* "éQQ=="

OutputLists ==
  { <<>>,
    << Entry("redacted_transcription", FileText) >>,
    << Entry("redacted_transcription", FileText), Entry("redacted_audio", FileAB),
       Entry("redacted_audio", FileABC) >>,
    << Entry("redacted_audio", FileBad) >>,
    << Entry("redacted_audio", FileNonAscii) >> }

\* bodies of the status endpoint while the job is not finished
PendingBodies ==
  { [status |-> "PENDING"], [status |-> "IN_PROGRESS"], <<>>, [message |-> "queued"] }

\* bodies of the status endpoint once the job is finished
TerminalBodies ==
  { [status |-> "FAILED"], [status |-> "SUCCESS"] }
    \cup { [status |-> "SUCCESS", output |-> o] : o \in OutputLists }

\* fragments the speech service streams
Fragments ==
  { <<81, 81, 61, 61>>,     \* "QQ==": the byte 65
    <<81, 85, 74, 68>> }    \* "QUJD": the bytes 65 66 67

\* events the speech service sends, as json.loads returns them: deltas with
\* and without their delta field, the completion, an event of another type
\* and one without a type
ServerEvents ==
  { [type |-> "response.audio.delta", delta |-> f] : f \in Fragments }
    \cup { [type |-> "response.audio.delta"],
           [type |-> "response.audio.done"],
           [type |-> "session.created"],
           [event_id |-> "e1"] }

\* a frame whose text is no JSON document, and one whose JSON document is an
\* array, not an object
NotJson   == [frame |-> "<html>"]
NotObject == [frame |-> "[]"]

\* what the websocket may deliver
ServerMessages == ServerEvents \cup {NotJson, NotObject}

\* line 165: json.loads(message) returns
IsJson(m) == m # NotJson

\* line 168: parsed_message has a get method
IsObject(m) == m # NotObject

\* parsed_message.get("type") == value
TypeIs(m, value) == "type" \in DOMAIN m /\ m.type = value

\* ------------------------------------------------------------ the transcoder
\* framings a waveform file may have when AudioSegment.from_file loads it
Waveforms ==
  { [frame_rate |-> 44100, channels |-> 1, sample_width |-> 2],
    [frame_rate |-> 24000, channels |-> 1, sample_width |-> 2],
    [frame_rate |-> 8000, channels |-> 2, sample_width |-> 1] }

\* audio_to_base64 without the call of set_frame_rate
audio_to_base64_no_resample(file_bytes, wave) ==
  LET audio == [wave EXCEPT !.channels = 1, !.sample_width = 2] IN
  [frame_rate |-> audio.frame_rate, channels |-> audio.channels,
   sample_width |-> audio.sample_width, samples_of |-> file_bytes]

\* audio_to_base64: the framing of the PCM that is base64-encoded for the
\* speech service, after set_frame_rate, set_channels and set_sample_width;
\* the samples stand for the converted content of the file
audio_to_base64(file_bytes, wave) ==
  LET audio == [wave EXCEPT !.frame_rate = 24000, !.channels = 1, !.sample_width = 2] IN
  [frame_rate |-> audio.frame_rate, channels |-> audio.channels,
   sample_width |-> audio.sample_width, samples_of |-> file_bytes]

\* AudioSegment(data=..., sample_width=2, frame_rate=24000, channels=1) and
\* export("output.wav")
from_model_format(pcm) ==
  [sample_width |-> SAMPLE_WIDTH, frame_rate |-> FRAME_RATE, channels |-> CHANNELS,
   data |-> pcm]

\* send_audio with the response requested before the item is created
ItemCreate_response_first(audio) == [type |-> "response.create"]

\* send_audio's two events
ItemCreate(audio) ==
  [type |-> "conversation.item.create",
   item |-> [type |-> "message", role |-> "user",
             content |-> << [type |-> "input_audio", audio |-> audio] >>]]

ResponseCreate == [type |-> "response.create"]

\* -------------------------------------------------------------------- state
VARIABLES
  pc,                \* where main() is suspended
  pool,              \* blocking calls outstanding in the thread pool
  pendingLeft,       \* pending answers the status endpoint still gives, or Forever
  pendings,          \* pending answers the status endpoint has given (saturating)
  http_code,         \* status code of the last REST response
  calls,             \* how often each operation has been started (saturating)
  slept,             \* seconds spent in asyncio.sleep (saturating)
  detect_response,   \* main's local
  status_id,         \* main's local
  polled,            \* the identifiers the status requests carried
  status_response,   \* main's local
  input_wav,         \* the three files
  processed_wav,
  output_wav,
  base64_audio,      \* main's local
  conn,              \* the websocket
  sent,              \* events written to the websocket, in order
  inbox,             \* events delivered by the service, not yet consumed
  served,            \* events the service has delivered
  accumulated_audio, \* main's local
  delivered,         \* the delta fields the service has delivered, in order
  pcm_audio,         \* main's local
  last_type,         \* the type of the event consumed last
  raised,            \* the exception on its way out of the "async with" block
  outcome,           \* how the run ended
  printed            \* the messages logged

restVars   == <<pendingLeft, pendings, http_code, slept, detect_response, status_id, polled,
                status_response>>
fileVars   == <<input_wav, processed_wav, output_wav, base64_audio>>
streamVars == <<conn, sent, inbox, served, accumulated_audio, delivered, pcm_audio, last_type,
                raised>>
vars == <<pc, pool, calls, outcome, printed, restVars, fileVars, streamVars>>

Ops == {"record_audio", "detect_audio", "check_status", "sleep", "write_processed",
        "audio_to_base64", "connect", "send_audio", "receive", "b64decode", "export"}

Inc(c, op) == [c EXCEPT ![op] = IF @ < CallCap THEN @ + 1 ELSE @]

Init ==
  /\ pc = "start"
  /\ pool = {}
  /\ pendingLeft \in (0..MaxPending) \cup {Forever}
  /\ calls = [op \in Ops |-> 0]
  /\ pendings = 0
  /\ http_code = 0
  /\ slept = 0
  /\ detect_response = None
  /\ status_id = None
  /\ polled = {}
  /\ status_response = None
  /\ input_wav = None
  /\ processed_wav = None
  /\ output_wav = None
  /\ base64_audio = None
  /\ conn = "none"
  /\ sent = <<>>
  /\ inbox = <<>>
  /\ served = 0
  /\ accumulated_audio = <<>>
  /\ delivered = <<>>
  /\ pcm_audio = None
  /\ last_type = "(nothing)"
  /\ raised = None
  /\ outcome = "running"
  /\ printed = {}

\* an exception leaves main(): the run is over, the thread pool is idle
Crash(exception) ==
  /\ pc' = "crashed"
  /\ outcome' = exception

\* ---------------------------------------------------------------- recording
\* line 126: record_audio goes to the thread pool
StartRecord ==
  /\ pc = "start"
  /\ pc' = "await_record"
  /\ pool' = pool \cup {"record_audio"}
  /\ calls' = Inc(calls, "record_audio")
  /\ printed' = printed \cup {"Recording..."}
  /\ UNCHANGED <<outcome, restVars, fileVars, streamVars>>

\* lines 126-130: the recording is back (or the device failed); detect_audio
\* goes to the thread pool
RecordReturn ==
  /\ pc = "await_record"
  /\ \E device_ok \in BOOLEAN :
       IF device_ok
       THEN /\ input_wav' = Some([fs |-> RECORD_FS, channels |-> 1, seconds |-> RECORD_SECONDS])
            /\ pool' = (pool \ {"record_audio"}) \cup {"detect_audio"}
            /\ calls' = Inc(calls, "detect_audio")
            /\ printed' = printed \cup {"Recording complete.", "Sending audio for detection..."}
            /\ pc' = "await_submit"
            /\ UNCHANGED outcome
       ELSE /\ Crash("DeviceError")
            /\ pool' = pool \ {"record_audio"}
            /\ UNCHANGED <<input_wav, calls, printed>>
  /\ UNCHANGED <<restVars, processed_wav, output_wav, base64_audio, streamVars>>

\* ------------------------------------------------------------------- submit
\* line 132: detect_response and 'status_url' in detect_response
HasStatusUrl(resp) == Truthy(resp) /\ "status_url" \in DOMAIN resp[1]

\* line 137 with the status request also started ahead, un-awaited
DispatchPoll_ahead(id) ==
  /\ pool' = (pool \ {"detect_audio"}) \cup {"check_status", "check_status (ahead)"}
  /\ calls' = Inc(calls, "check_status")
  /\ polled' = polled \cup {id}
  /\ pc' = "await_poll"

\* line 137: check_status(status_id) goes to the thread pool
DispatchPoll(id) ==
  /\ pool' = (pool \ {"detect_audio"}) \cup {"check_status"}
  /\ calls' = Inc(calls, "check_status")
  /\ polled' = polled \cup {id}
  /\ pc' = "await_poll"

\* lines 130-137 and 199-200: the submit request is back
SubmitReturn ==
  /\ pc = "await_submit"
  /\ \E code \in StatusCodes, body \in SubmitBodies :
       LET resp == detect_audio([status_code |-> code, body |-> body]) IN
       /\ detect_response' = resp
       /\ http_code' = code
       /\ IF HasStatusUrl(resp)
          THEN /\ status_id' = Some(LastSegment(resp[1].status_url))
               /\ DispatchPoll(LastSegment(resp[1].status_url))
               /\ printed' = IF resp = None THEN printed \cup {"Error: status and body"}
                                            ELSE printed
               /\ UNCHANGED outcome
          ELSE /\ pc' = "done"
               /\ outcome' = "detect_error"
               /\ pool' = pool \ {"detect_audio"}
               /\ printed' = printed \cup {"Error during audio detection."}
                               \cup (IF resp = None THEN {"Error: status and body"} ELSE {})
               /\ UNCHANGED <<status_id, polled, calls>>
  /\ UNCHANGED <<pendingLeft, pendings, slept, status_response, fileVars, streamVars>>

\* --------------------------------------------------------------------- poll
\* line 139: status_response and status_response.get("status") == "SUCCESS"
IsSuccess(resp) == Truthy(resp) /\ StatusIs(resp[1], "SUCCESS")

\* the comparison at line 193 reading the status with a default of "FAILED"
IsFailed_by_default(resp) ==
  "status" \notin DOMAIN resp[1] \/ StatusIs(resp[1], "FAILED")

\* the comparison at line 193 with the literal misspelt
IsFailed_misspelt(resp) == StatusIs(resp[1], "FAILURE")

\* line 193: status_response.get("status") == "FAILED", on a response that is
\* not None
IsFailed(resp) == StatusIs(resp[1], "FAILED")

\* the scan without the test of line 141: the first entry wins
FirstMatch_any_type(outputs) == IF outputs # <<>> THEN 1 ELSE 0

\* the scan without the break of line 191: the last matching entry wins
FirstMatch_last(outputs) ==
  IF \E i \in 1..Len(outputs) : outputs[i].processedFileType = "redacted_audio"
  THEN CHOOSE i \in 1..Len(outputs) :
         /\ outputs[i].processedFileType = "redacted_audio"
         /\ \A j \in (i + 1)..Len(outputs) : outputs[j].processedFileType # "redacted_audio"
  ELSE 0

\* lines 140-141 and 191: the index of the first entry of the list whose
\* processedFileType is "redacted_audio", 0 when there is none
FirstMatch(outputs) ==
  IF \E i \in 1..Len(outputs) : outputs[i].processedFileType = "redacted_audio"
  THEN CHOOSE i \in 1..Len(outputs) :
         /\ outputs[i].processedFileType = "redacted_audio"
         /\ \A j \in 1..(i - 1) : outputs[j].processedFileType # "redacted_audio"
  ELSE 0

\* the break of line 192 replaced by a retry of the status loop when the
\* session ended without a reply
AfterSession_retry == IF output_wav = None /\ conn # "none" THEN "sleeping" ELSE "done"

\* the loop without the break of line 192: the status is polled again
AfterSession_no_break == "sleeping"

\* lines 191-192: where main() is once the speech session is left
AfterSession == "done"

\* lines 142-157: the matching entry is written to processed_output.wav and
\* transcoded (wave is the framing the file is found to have, None when it
\* cannot be loaded), and the websocket handshake starts
Extract(entry, wave) ==
  LET bytes == b64decode(entry.processedFile) IN
  IF ~bytes.ok
  THEN \* open(..., "wb") has truncated the file when b64decode raises
       /\ Crash(bytes.error)
       /\ processed_wav' = Some(<<>>)
       /\ calls' = Inc(calls, "write_processed")
       /\ UNCHANGED <<base64_audio, printed>>
  ELSE /\ processed_wav' = Some(bytes.bytes)
       /\ printed' = printed \cup {"Processed audio saved as processed_output.wav"}
       /\ IF wave # None
          THEN /\ base64_audio' = Some(audio_to_base64(bytes.bytes, wave[1]))
               /\ calls' = Inc(Inc(Inc(calls, "write_processed"), "audio_to_base64"), "connect")
               /\ pc' = "connecting"
               /\ UNCHANGED outcome
          ELSE /\ Crash("CouldntDecodeError")
               /\ calls' = Inc(Inc(calls, "write_processed"), "audio_to_base64")
               /\ UNCHANGED base64_audio

\* lines 137-147 and 192-198: the status request is back
PollReturn ==
  /\ pc = "await_poll"
  /\ pool' = pool \ {"check_status"}
  /\ \E code \in StatusCodes,
        body \in (IF pendingLeft = 0 THEN TerminalBodies ELSE PendingBodies),
        wave \in {None} \cup {Some(w) : w \in Waveforms} :
       LET resp == check_status([status_code |-> code, body |-> body]) IN
       /\ status_response' = resp
       /\ http_code' = code
       /\ pendingLeft' = IF pendingLeft > 0 /\ code = 200 THEN pendingLeft - 1 ELSE pendingLeft
       /\ pendings' = IF pendingLeft # 0 /\ code = 200 /\ pendings < CallCap
                      THEN pendings + 1 ELSE pendings
       /\ IF IsSuccess(resp)
          THEN IF "output" \notin DOMAIN resp[1]
               THEN /\ Crash("KeyError")
                    /\ UNCHANGED <<calls, printed, slept, processed_wav, base64_audio>>
               ELSE LET k == FirstMatch(resp[1].output) IN
                    IF k = 0
                    THEN /\ pc' = AfterSession
                         /\ outcome' = "no_artifact"
                         /\ UNCHANGED <<calls, printed, slept, processed_wav, base64_audio>>
                    ELSE /\ Extract(resp[1].output[k], wave)
                         /\ UNCHANGED slept
          ELSE IF resp = None
          THEN /\ Crash("AttributeError")
               /\ printed' = printed \cup {"Error: status and body"}
               /\ UNCHANGED <<calls, slept, processed_wav, base64_audio>>
          ELSE IF IsFailed(resp)
          THEN /\ pc' = "done"
               /\ outcome' = "job_failed"
               /\ printed' = printed \cup {"Audio processing failed."}
               /\ UNCHANGED <<calls, slept, processed_wav, base64_audio>>
          ELSE /\ pc' = "sleeping"
               /\ calls' = Inc(calls, "sleep")
               /\ printed' = printed \cup {"Processing... checking again in 2 seconds."}
               /\ UNCHANGED <<outcome, slept, processed_wav, base64_audio>>
  /\ UNCHANGED <<detect_response, status_id, polled, input_wav, output_wav, streamVars>>

\* lines 198 and 137: the sleep is over, the next status request goes out
Wake ==
  /\ pc = "sleeping"
  /\ slept' = IF slept < CallCap * POLL_INTERVAL THEN slept + POLL_INTERVAL ELSE slept
  /\ DispatchPoll(status_id[1])
  /\ UNCHANGED <<outcome, printed, pendingLeft, pendings, http_code, detect_response,
                 status_id, status_response, fileVars, streamVars>>

\* ----------------------------------------------------------- speech session
\* leaving the "async with" block closes the websocket
Leave(c) == IF c = "open" THEN "closed_by_client" ELSE c

\* lines 151-161: the handshake is over; send_audio starts its first send
ConnectReturn ==
  /\ pc = "connecting"
  /\ \E handshake_ok \in BOOLEAN :
       IF handshake_ok
       THEN /\ conn' = "open"
            /\ pc' = "send_item"
            /\ calls' = Inc(calls, "send_audio")
            /\ printed' = printed \cup {"Connected to OpenAI Realtime API."}
            /\ UNCHANGED outcome
       ELSE /\ Crash("ConnectionError")
            /\ UNCHANGED <<conn, printed, calls>>
  /\ UNCHANGED <<pool, restVars, fileVars, sent, inbox, served, accumulated_audio,
                 delivered, pcm_audio, last_type, raised>>

\* line 70: the conversation.item.create event is written
SendItem ==
  /\ pc = "send_item"
  /\ IF conn = "open"
     THEN /\ sent' = Append(sent, ItemCreate(base64_audio[1]))
          /\ pc' = "send_create"
          /\ UNCHANGED <<outcome, conn>>
     ELSE /\ Crash("ConnectionClosed")
          /\ UNCHANGED <<sent, conn>>
  /\ UNCHANGED <<pool, calls, printed, restVars, fileVars, inbox, served, accumulated_audio,
                 delivered, pcm_audio, last_type, raised>>

\* lines 71 and 163: the response.create event is written, the accumulator
\* is set up and the receive loop starts
SendCreate ==
  /\ pc = "send_create"
  /\ IF conn = "open"
     THEN /\ sent' = Append(sent, ResponseCreate)
          /\ accumulated_audio' = <<>>
          /\ calls' = Inc(calls, "receive")
          /\ pc' = "receiving"
          /\ UNCHANGED <<outcome, conn>>
     ELSE /\ Crash("ConnectionClosed")
          /\ UNCHANGED <<sent, conn, accumulated_audio, calls>>
  /\ UNCHANGED <<pool, printed, restVars, fileVars, inbox, served, delivered, pcm_audio,
                 last_type, raised>>

\* the speech service delivers an event
ServerSend ==
  /\ conn = "open"
  /\ Len(inbox) < MaxInbox
  /\ served < MaxMsgs
  /\ \E m \in ServerMessages :
       /\ inbox' = Append(inbox, m)
       /\ delivered' = IF TypeIs(m, "response.audio.delta") /\ "delta" \in DOMAIN m
                       THEN Append(delivered, m.delta) ELSE delivered
  /\ served' = served + 1
  /\ UNCHANGED <<pc, pool, calls, outcome, printed, restVars, fileVars, conn, sent,
                 accumulated_audio, pcm_audio, last_type, raised>>

\* the speech service closes the websocket, normally or with an error
ServerClose ==
  /\ conn = "open"
  /\ \E c \in {"closed_ok", "closed_err"} : conn' = c
  /\ UNCHANGED <<pc, pool, calls, outcome, printed, restVars, fileVars, sent, inbox, served,
                 accumulated_audio, delivered, pcm_audio, last_type, raised>>

\* lines 192-200: main() is past the "async with" block, normally or with
\* the exception that left it
Ended(exc) ==
  IF exc = None
  THEN /\ pc' = AfterSession
       /\ outcome' = "completed"
  ELSE Crash(exc[1])

\* line 151, __aexit__ after a break or an exception in the block: on an
\* open websocket the closing handshake is awaited and main() is suspended;
\* on a websocket already closed there is nothing to wait for
LeaveSession(exc) ==
  IF conn = "open"
  THEN /\ pc' = "closing"
       /\ raised' = exc
       /\ UNCHANGED <<outcome, conn>>
  ELSE /\ Ended(exc)
       /\ UNCHANGED <<conn, raised>>

\* line 151, __aexit__ returns: the websocket is closed and main() goes on
ExitSession ==
  /\ pc = "closing"
  /\ conn' = Leave(conn)
  /\ Ended(raised)
  /\ UNCHANGED <<pool, calls, printed, restVars, fileVars, sent, inbox, served,
                 accumulated_audio, delivered, pcm_audio, last_type, raised>>

\* the concatenation of line 170 with its operands swapped
Accumulate_prepend(acc, delta) == delta \o acc

\* line 170: accumulated_audio += delta
Accumulate(acc, delta) == acc \o delta

\* lines 174-190: response.audio.done
Finish ==
  LET pcm == b64decode(accumulated_audio) IN
  /\ printed' = printed \cup {"Streaming completed"}
                  \cup (IF pcm.ok /\ Len(pcm.bytes) % (SAMPLE_WIDTH * CHANNELS) = 0
                        THEN {"Assistant's reply saved to output.wav"} ELSE {})
  /\ IF ~pcm.ok
     THEN /\ LeaveSession(Some(pcm.error))
          /\ calls' = Inc(calls, "b64decode")
          /\ UNCHANGED <<output_wav, pcm_audio>>
     ELSE IF Len(pcm.bytes) % (SAMPLE_WIDTH * CHANNELS) # 0
     THEN /\ LeaveSession(Some("ValueError"))
          /\ calls' = Inc(calls, "b64decode")
          /\ pcm_audio' = Some(pcm.bytes)
          /\ UNCHANGED output_wav
     ELSE /\ output_wav' = Some(from_model_format(pcm.bytes))
          /\ pcm_audio' = Some(pcm.bytes)
          /\ calls' = Inc(Inc(calls, "b64decode"), "export")
          /\ LeaveSession(None)

\* line 168 reading the type with a default of "response.audio.delta"
IsDelta_by_default(m) == "type" \notin DOMAIN m \/ TypeIs(m, "response.audio.delta")

\* line 168: parsed_message.get("type") == "response.audio.delta"
IsDelta(m) == TypeIs(m, "response.audio.delta")

\* line 173 as a plain else: every event that is not a delta ends the reply
IsDone_else(m) == TRUE

\* line 173: parsed_message.get("type") == "response.audio.done"
IsDone(m) == TypeIs(m, "response.audio.done")

\* lines 164-190: the receive loop takes the next event
Recv ==
  /\ pc = "receiving"
  /\ inbox # <<>>
  /\ inbox' = Tail(inbox)
  /\ LET m == Head(inbox) IN
     /\ last_type' = IF "type" \in DOMAIN m THEN m.type ELSE "(no type)"
     /\ IF ~IsJson(m)
        THEN /\ LeaveSession(Some("JSONDecodeError"))
             /\ UNCHANGED <<accumulated_audio, calls, printed, output_wav, pcm_audio>>
        ELSE IF ~IsObject(m)
        THEN /\ LeaveSession(Some("AttributeError"))
             /\ UNCHANGED <<accumulated_audio, calls, printed, output_wav, pcm_audio>>
        ELSE IF IsDelta(m)
        THEN /\ IF "delta" \in DOMAIN m
                THEN /\ accumulated_audio' = Accumulate(accumulated_audio, m.delta)
                     /\ UNCHANGED <<pc, outcome, conn, raised>>
                ELSE /\ LeaveSession(Some("TypeError"))
                     /\ UNCHANGED accumulated_audio
             /\ UNCHANGED <<calls, printed, output_wav, pcm_audio>>
        ELSE IF IsDone(m)
        THEN /\ Finish
             /\ UNCHANGED accumulated_audio
        ELSE UNCHANGED <<pc, outcome, conn, calls, printed, output_wav, pcm_audio,
                         accumulated_audio, raised>>
  /\ UNCHANGED <<pool, restVars, input_wav, processed_wav, base64_audio, sent, served,
                 delivered>>

\* lines 164 and 191-192: the websocket is closed and drained; the iterator
\* ends after a normal close and raises after an abnormal one
RecvEnd ==
  /\ pc = "receiving"
  /\ inbox = <<>>
  /\ conn \in {"closed_ok", "closed_err"}
  /\ IF conn = "closed_ok"
     THEN /\ pc' = AfterSession
          /\ outcome' = "stream_closed"
     ELSE Crash("ConnectionClosedError")
  /\ UNCHANGED <<pool, calls, printed, restVars, fileVars, streamVars>>

\* ------------------------------------------------------------ specification
Next ==
  \/ StartRecord
  \/ RecordReturn
  \/ SubmitReturn
  \/ PollReturn
  \/ Wake
  \/ ConnectReturn
  \/ SendItem
  \/ SendCreate
  \/ ServerSend
  \/ ServerClose
  \/ Recv
  \/ RecvEnd
  \/ ExitSession

Spec == Init /\ [][Next]_vars

\* main() is scheduled whenever it can run, and every request is answered
FairSpec == Spec /\ WF_vars(Next)

\* =================================================================== claims
\* the entries of an output list that carry the redacted audio
Matching(outputs) ==
  { i \in 1..Len(outputs) : outputs[i].processedFileType = "redacted_audio" }

\* the last status answer is a dict with the given status
Answered(status) == status_response # None /\ StatusIs(status_response[1], status)

\* the last status answer is SUCCESS with at least one redacted_audio entry
SuccessWithArtifact ==
  /\ Answered("SUCCESS")
  /\ "output" \in DOMAIN status_response[1]
  /\ Matching(status_response[1].output) # {}

\* the first redacted_audio entry of the last status answer
FirstArtifact ==
  LET outputs == status_response[1].output
      first == CHOOSE i \in Matching(outputs) : \A j \in Matching(outputs) : i <= j
  IN outputs[first]

\* C1: after N pending answers and then SUCCESS with a redacted_audio entry,
\* exactly N+1 status requests have been issued, none is outstanding or issued
\* later, and processed_output.wav holds the base64 decoding of the entry's
\* processedFile.
C1_PollCountAndArtifact ==
  SuccessWithArtifact =>
    /\ calls["check_status"] = pendings + 1
    /\ "check_status" \notin pool
    /\ LET decoded == b64decode(FirstArtifact.processedFile)
       IN decoded.ok => processed_wav = Some(decoded.bytes)

C1_Witness ==
  /\ SuccessWithArtifact
  /\ pendings = 2
  /\ calls["check_status"] = 3
  /\ Len(status_response[1].output) = 3
  /\ processed_wav = Some(<<65, 66>>)
  /\ pc = "done"

\* C2: once a poll has answered FAILED the run is over: no further status
\* request, no transcoding, no websocket, nothing sent, and neither
\* processed_output.wav nor output.wav written.
C2_FailedAborts ==
  Answered("FAILED") =>
    /\ pc = "done"
    /\ pool = {}
    /\ calls["check_status"] = pendings + 1
    /\ calls["audio_to_base64"] = 0
    /\ calls["connect"] = 0
    /\ conn = "none"
    /\ sent = <<>>
    /\ processed_wav = None
    /\ output_wav = None

C2_Witness ==
  /\ Answered("FAILED")
  /\ pendings = 1
  /\ calls["check_status"] = 2
  /\ "Audio processing failed." \in printed
  /\ pc = "done"

\* the submit request has come back with an absent result
SubmitAbsent ==
  calls["detect_audio"] >= 1 /\ pc # "await_submit" /\ detect_response = None

\* a status request has come back with an absent result
PollAbsent ==
  calls["check_status"] >= 1 /\ pc # "await_poll" /\ status_response = None

\* C3: an absent result of submit or of a poll ends the run as a handled,
\* logged failure: main returns (no exception leaves it), nothing is retried
\* and no later stage runs.  Stated for the answers that are errors by any
\* reading, those with a status code outside 2xx.
C3_AbsentAbortsHandled ==
  ((SubmitAbsent \/ PollAbsent) /\ http_code \div 100 # 2) =>
    /\ pc = "done"
    /\ pool = {}
    /\ printed \cap {"Error during audio detection.", "Audio processing failed."} # {}
    /\ calls["audio_to_base64"] = 0
    /\ calls["connect"] = 0
    /\ sent = <<>>

\* C4: SUCCESS with no redacted_audio entry in the output list ends the run
\* with an explicit MalformedResponse error, not silently, and without
\* transcoding, connecting or streaming.
C4_NoArtifactRaises ==
  ( /\ Answered("SUCCESS")
    /\ "output" \in DOMAIN status_response[1]
    /\ Matching(status_response[1].output) = {} ) =>
    /\ pc = "crashed"
    /\ outcome = "MalformedResponse"
    /\ calls["audio_to_base64"] = 0
    /\ calls["connect"] = 0
    /\ sent = <<>>

\* the delta fields of the events consumed so far: those delivered, less the
\* ones still waiting in the inbox
InboxDeltas ==
  Len(SelectSeq(inbox, LAMBDA m : TypeIs(m, "response.audio.delta") /\ "delta" \in DOMAIN m))

ConsumedDeltas == SubSeq(delivered, 1, Len(delivered) - InboxDeltas)

RECURSIVE Flatten(_)
Flatten(seqs) == IF seqs = <<>> THEN <<>> ELSE Head(seqs) \o Flatten(Tail(seqs))

DoneConsumed == last_type = "response.audio.done"

\* C5: when response.audio.done is processed the accumulator is the
\* concatenation, in delivery order, of the delta fields of exactly the
\* response.audio.delta events delivered before it.
C5_AccumulatorIsConcatenation ==
  DoneConsumed => accumulated_audio = Flatten(ConsumedDeltas)

C5_Witness ==
  /\ DoneConsumed
  /\ Len(ConsumedDeltas) = 3
  /\ ConsumedDeltas[1] # ConsumedDeltas[2]
  /\ accumulated_audio = <<81, 81, 61, 61, 81, 85, 74, 68, 81, 81, 61, 61>>

RECURSIVE DecodeEach(_)
DecodeEach(seqs) ==
  IF seqs = <<>> THEN <<>> ELSE b64decode(Head(seqs)).bytes \o DecodeEach(Tail(seqs))

\* C6: for fragments that are each padded base64, the bytes of the single
\* final decode of the accumulator are the concatenation of the bytes of the
\* fragments decoded one by one.
C6_DecodeDistributes ==
  ( /\ pcm_audio # None
    /\ \A i \in 1..Len(ConsumedDeltas) :
         ConsumedDeltas[i][Len(ConsumedDeltas[i])] = PAD ) =>
    pcm_audio[1] = DecodeEach(ConsumedDeltas)

\* C7: submit and poll return the parsed body for every 2xx status code and
\* an absent value exactly for the other codes.
C7_ParsedOnAny2xx ==
  LET is2xx == http_code \div 100 = 2 IN
  /\ (calls["detect_audio"] >= 1 /\ calls["check_status"] = 0 /\ pc # "await_submit")
       => (is2xx <=> detect_response # None)
  /\ (calls["check_status"] >= 1 /\ pc # "await_poll")
       => (is2xx <=> status_response # None)

\* the stages of a run, in the order of the pipeline
StageOps ==
  << "record_audio", "detect_audio", "check_status", "audio_to_base64", "connect",
     "send_audio", "receive", "export" >>

\* no stage but the poll is started twice
C8_Once ==
  \A i \in 1..Len(StageOps) : StageOps[i] # "check_status" => calls[StageOps[i]] <= 1

\* a stage has started only if the stage before it completed successfully
C8_AfterPrevious ==
  /\ calls["detect_audio"] >= 1 => input_wav # None /\ "record_audio" \notin pool
  /\ calls["check_status"] >= 1 =>
       /\ detect_response # None
       /\ "status_url" \in DOMAIN detect_response[1]
       /\ "detect_audio" \notin pool
  /\ calls["audio_to_base64"] >= 1 =>
       SuccessWithArtifact /\ "check_status" \notin pool /\ processed_wav # None
  /\ calls["connect"] >= 1 => base64_audio # None
  /\ calls["send_audio"] >= 1 => conn # "none"
  /\ calls["receive"] >= 1 => Len(sent) = 2
  /\ calls["export"] >= 1 => DoneConsumed /\ pcm_audio # None

\* once a later stage has started no earlier stage starts again
C8_NoReentry ==
  \A i, j \in 1..Len(StageOps) :
    (i < j /\ calls[StageOps[j]] >= 1) => calls'[StageOps[i]] = calls[StageOps[i]]

\* C8: the stages run in the order record, submit, poll (repeated), transcode,
\* open session, send, stream, write reply: each starts only after the one
\* before it completed successfully, only the poll repeats, and no earlier
\* stage is entered again once a later one has started.
C8_StageOrder == [](C8_Once /\ C8_AfterPrevious) /\ [][C8_NoReentry]_vars

C8_Witness ==
  /\ outcome = "completed"
  /\ calls["check_status"] = 3
  /\ calls["export"] = 1
  /\ Len(sent) = 2

\* the receive loop has been entered and left
LoopStopped == calls["receive"] >= 1 /\ pc # "receiving"

\* C9 as stated: the receive loop is left if and only if response.audio.done
\* has been received, and on that event the accumulator is decoded once; a
\* close of the connection is not what ends the loop.
C9_StopsIffDone ==
  /\ (calls["receive"] >= 1 /\ pc = "done") => DoneConsumed
  /\ DoneConsumed => (LoopStopped /\ calls["b64decode"] = 1)

\* main() is in the polling loop
InLoop == pc \in {"await_poll", "sleeping"}

\* one sleep per pending answer, each of the fixed interval, each followed by
\* exactly one more status request. The counters saturate at CallCap, which
\* only the endpoint that stays pending forever reaches: every finite run is
\* counted exactly, and a saturated counter has passed every smaller count.
C10_Counts ==
  /\ calls["check_status"] = 0 => (calls["sleep"] = 0 /\ slept = 0)
  /\ (calls["check_status"] >= 1 /\ calls["check_status"] < CallCap) =>
       LET completed == calls["sleep"] - (IF pc = "sleeping" THEN 1 ELSE 0) IN
       /\ calls["sleep"] = pendings
       /\ slept = 2 * completed
       /\ calls["check_status"] = completed + 1
  /\ pendingLeft # Forever => calls["check_status"] < CallCap
  /\ calls["check_status"] = CallCap =>
       /\ pendingLeft = Forever
       /\ pendings >= CallCap - 1
       /\ calls["sleep"] >= CallCap - 1
       /\ slept >= 2 * (CallCap - 1)

\* what one step of the loop does with the answer it got
C10_Step ==
  /\ ( /\ pc = "await_poll" /\ pc' # "await_poll"
       /\ status_response' # None
       /\ ~StatusIs(status_response'[1], "SUCCESS")
       /\ ~StatusIs(status_response'[1], "FAILED") )
       => (pc' = "sleeping" /\ slept' = slept)
  /\ ( /\ pc = "await_poll" /\ pc' # "await_poll"
       /\ status_response' # None
       /\ (StatusIs(status_response'[1], "SUCCESS") \/ StatusIs(status_response'[1], "FAILED")) )
       => (pc' # "sleeping" /\ calls'["sleep"] = calls["sleep"])
  /\ (pc = "sleeping" /\ pc' # "sleeping")
       => (pc' = "await_poll" /\ "check_status" \in pool')
  /\ (pendingLeft = Forever /\ InLoop /\ status_response' # None) => InLoop'

\* C10: every status other than SUCCESS and FAILED, a missing one included,
\* makes the loop sleep once for 2 seconds and poll again; there is no sleep
\* before the first poll or after a terminal status and no bound on the
\* polls; against an endpoint that stays pending the loop never ends, and
\* against one that stops being pending it ends.
C10_PollingLoop ==
  /\ [](C10_Counts)
  /\ [][C10_Step]_vars
  /\ ((InLoop /\ pendingLeft # Forever) ~> ~InLoop)

C10_Witness ==
  /\ pc = "sleeping"
  /\ status_response = Some([message |-> "queued"])
  /\ calls["check_status"] = 3
  /\ slept = 4

\* what has been written to the websocket is a prefix of the two events of
\* send_audio, the first one carrying the transcoded audio
C11_SentPrefix ==
  /\ Len(sent) <= 2
  /\ Len(sent) >= 1 =>
       /\ conn # "none"
       /\ base64_audio # None
       /\ sent[1].type = "conversation.item.create"
       /\ sent[1].item.content[1].type = "input_audio"
       /\ sent[1].item.content[1].audio = base64_audio[1]
  /\ Len(sent) = 2 => (DOMAIN sent[2] = {"type"} /\ sent[2].type = "response.create")
  /\ pc = "send_item" => Len(sent) = 0
  /\ pc = "send_create" => Len(sent) = 1
  /\ calls["receive"] >= 1 => Len(sent) = 2
  /\ Len(sent) < 2 => last_type = "(nothing)"

\* events are written one at a time, and an event is taken from the
\* websocket only when both have been written
C11_SendThenReceive ==
  /\ sent' # sent => (Len(sent') = Len(sent) + 1 /\ SubSeq(sent', 1, Len(sent)) = sent
                        /\ inbox' = inbox)
  /\ (inbox # <<>> /\ inbox' = Tail(inbox)) => (Len(sent) = 2 /\ sent' = sent)
  /\ last_type' # last_type => Len(sent) = 2

\* C11: on the open connection the client writes exactly two events,
\* conversation.item.create with the base64 PCM audio and then the body-less
\* response.create, each once and in that order, and consumes no event of the
\* service before both are written.
C11_TwoSendsInOrder == [](C11_SentPrefix) /\ [][C11_SendThenReceive]_vars

C11_Witness ==
  /\ pc = "send_create"
  /\ Len(sent) = 1
  /\ Len(inbox) = 2
  /\ last_type = "(nothing)"

\* the event about to be consumed is neither a delta nor the completion
IgnoredEvent(m) ==
  /\ m \in ServerEvents
  /\ ~("type" \in DOMAIN m /\ m.type \in {"response.audio.delta", "response.audio.done"})

\* C12: consuming an event whose type is neither response.audio.delta nor
\* response.audio.done, a missing type included, leaves the accumulator and
\* the session as they are, writes no file, and the receive loop goes on.
C12_OtherEventsIgnored ==
  [][ ( /\ pc = "receiving"
        /\ inbox # <<>>
        /\ inbox' = Tail(inbox)
        /\ IgnoredEvent(Head(inbox)) )
      => ( /\ pc' = "receiving"
           /\ UNCHANGED <<accumulated_audio, conn, sent, pcm_audio, outcome, calls,
                          input_wav, processed_wav, output_wav, base64_audio>> ) ]_vars

C12_Witness ==
  /\ pc = "receiving"
  /\ last_type = "(no type)"
  /\ accumulated_audio = <<81, 85, 74, 68>>
  /\ served = 3
  /\ inbox = <<>>

\* C13: output.wav is written at most once, and only in a run in which
\* submit returned a descriptor with a status URL, a poll answered SUCCESS
\* with a redacted_audio entry, the websocket opened, both events were sent
\* and response.audio.done was received; a run that fails or aborts leaves
\* it unwritten.
C13_ReplyOnlyOnFullSuccess ==
  /\ calls["export"] <= 1
  /\ (calls["export"] = 1) <=> (output_wav # None)
  /\ output_wav # None =>
       /\ detect_response # None
       /\ "status_url" \in DOMAIN detect_response[1]
       /\ SuccessWithArtifact
       /\ conn # "none"
       /\ Len(sent) = 2
       /\ DoneConsumed
       /\ pc \in {"closing", "done"}
       /\ pc = "closing" => raised = None
       /\ pc = "done" => outcome = "completed"
  /\ (pc = "crashed" \/ outcome \in {"detect_error", "job_failed", "no_artifact",
                                      "stream_closed"})
       => output_wav = None

C13_Witness ==
  /\ output_wav # None
  /\ output_wav[1].data = <<65, 66, 67, 65, 66, 67>>
  /\ pendings = 1
  /\ outcome = "completed"

\* sample rate, channel count and sample width of a framed waveform
Framing(w) == <<w.frame_rate, w.channels, w.sample_width>>

\* C14: the framing audio_to_base64 encodes with and the framing the reply
\* PCM is wrapped in are both 24000 Hz, 1 channel, 2 bytes per sample,
\* whatever the framing of the waveform that was transcoded.
C14_FramingRoundTrip ==
  /\ base64_audio # None => Framing(base64_audio[1]) = <<24000, 1, 2>>
  /\ output_wav # None =>
       /\ Framing(output_wav[1]) = <<24000, 1, 2>>
       /\ Framing(output_wav[1]) = Framing(base64_audio[1])
  /\ \A m \in {sent[i] : i \in 1..Len(sent)} :
       m.type = "conversation.item.create" =>
         Framing(m.item.content[1].audio) = <<24000, 1, 2>>

C14_Witness ==
  /\ base64_audio # None
  /\ Len(sent) = 2
  /\ output_wav # None
  /\ Len(output_wav[1].data) = 4

\* C15: at most one blocking call is outstanding in the thread pool, it is
\* the one main() is waiting for, and none is outstanding while main() sleeps
\* between polls or runs the speech session.
C15_OneBlockingCall ==
  /\ Cardinality(pool) <= 1
  /\ pc = "await_record" <=> pool = {"record_audio"}
  /\ pc = "await_submit" <=> pool = {"detect_audio"}
  /\ pc = "await_poll" <=> pool = {"check_status"}
  /\ pc \in {"start", "sleeping", "connecting", "send_item", "send_create", "receiving",
             "closing", "done", "crashed"} => pool = {}
  /\ conn = "open" => pool = {}

C15_Witness ==
  /\ pc = "sleeping"
  /\ pool = {}
  /\ calls["check_status"] = 2
  /\ calls["sleep"] = 2

\* C16: on SUCCESS exactly one artifact is extracted: processed_output.wav is
\* written at most once, with the decoding of the first redacted_audio entry
\* (never an entry of another type), and one speech session is run even when
\* several entries match.
C16_FirstArtifactOnly ==
  /\ calls["write_processed"] <= 1
  /\ calls["audio_to_base64"] <= 1
  /\ calls["connect"] <= 1
  /\ (calls["write_processed"] = 1) <=> (processed_wav # None)
  /\ processed_wav # None =>
       /\ SuccessWithArtifact
       /\ LET decoded == b64decode(FirstArtifact.processedFile) IN
          processed_wav = Some(IF decoded.ok THEN decoded.bytes ELSE <<>>)
  /\ SuccessWithArtifact => processed_wav # None

C16_Witness ==
  /\ SuccessWithArtifact
  /\ Cardinality(Matching(status_response[1].output)) = 2
  /\ status_response[1].output[1].processedFileType # "redacted_audio"
  /\ processed_wav = Some(<<65, 66>>)
  /\ calls["write_processed"] = 1
  /\ calls["connect"] = 1
  /\ outcome = "completed"

\* the speech session failed to open or ended before response.audio.done
SessionLost ==
  outcome \in {"ConnectionError", "ConnectionClosed", "ConnectionClosedError", "stream_closed"}

\* a step that sends nothing, connects to nothing and polls nothing
NothingResent ==
  /\ sent' = sent
  /\ conn' = conn
  /\ calls'["connect"] = calls["connect"]
  /\ calls'["check_status"] = calls["check_status"]

\* C17: a run opens at most one websocket and never reconnects: when the
\* handshake fails or the connection ends before response.audio.done the run
\* is over, with no second connection, no audio sent again and no further
\* status request.
C17_NoReconnect ==
  /\ [](calls["connect"] <= 1)
  /\ [](SessionLost =>
          /\ pc \in {"done", "crashed"}
          /\ pool = {}
          /\ calls["connect"] = 1
          /\ calls["check_status"] = pendings + 1
          /\ output_wav = None)
  /\ [][SessionLost => UNCHANGED <<pc, calls, sent, polled, conn>>]_vars
  /\ [][(conn = "closed_ok" \/ conn = "closed_err") => NothingResent]_vars

C17_Witness ==
  /\ outcome = "stream_closed"
  /\ pc = "done"
  /\ accumulated_audio # <<>>
  /\ Len(sent) = 2
  /\ calls["connect"] = 1

\* the part of a URL after its last '/'
TrailingSegment(url) ==
  LET slashes == { i \in 1..Len(url) : url[i] = "/" }
      last == IF slashes = {} THEN 0
              ELSE CHOOSE i \in slashes : \A j \in slashes : j <= i
  IN SubSeq(url, last + 1, Len(url))

\* what main() does with a status answer, as a function of that answer alone
DecisionFor(resp) ==
  IF resp = None THEN {"crashed"}
  ELSE IF StatusIs(resp[1], "SUCCESS")
       THEN IF "output" \notin DOMAIN resp[1] THEN {"crashed"}
            ELSE IF Matching(resp[1].output) # {} THEN {"connecting", "crashed"}
            ELSE {"done"}
  ELSE IF StatusIs(resp[1], "FAILED") THEN {"done"}
  ELSE {"sleeping"}

\* C18: every status request of a run carries the same identifier, the last
\* '/'-separated segment of the status_url of the submit answer, computed
\* once before the first request; and what follows a status answer (extract,
\* abort, or wait and poll again) is decided by that answer alone.
C18_OneJobIdentifier ==
  /\ [](calls["check_status"] >= 1 =>
          /\ detect_response # None
          /\ status_id = Some(TrailingSegment(detect_response[1].status_url))
          /\ polled = {TrailingSegment(detect_response[1].status_url)})
  /\ [](calls["check_status"] = 0 => polled = {})
  /\ [][calls["check_status"] >= 1 => status_id' = status_id]_vars
  /\ [][(pc = "await_poll" /\ pc' # "await_poll") => pc' \in DecisionFor(status_response')]_vars

C18_Witness ==
  /\ pc = "connecting"
  /\ pendings = 1
  /\ calls["check_status"] = 2
  /\ SuccessWithArtifact
  /\ polled = {<<"j", "2">>}
  /\ status_id = Some(<<"j", "2">>)

====
